---- MODULE Spec2Model ----
(***************************************************************************)
(* Model of app_agenda_streamlit.py: the clients/services store (SQLite),  *)
(* the data-access functions, the two cached read queries                  *)
(* (st.cache_data(ttl=5.0)) and the Streamlit script main(), which runs    *)
(* top to bottom once per user interaction.                                *)
(*                                                                         *)
(* Text values are sequences of character codes (ASCII), so that SQL's     *)
(* text comparison (BINARY collation) is lexicographic comparison.         *)
(***************************************************************************)
EXTENDS Integers, Sequences, FiniteSets, TLC

VARIABLES
    clients,    \* table clients: set of rows [id, name]
    services,   \* table services: set of rows [id, service_date, service_time, client_id]
    cseq,       \* sqlite_sequence of clients (AUTOINCREMENT: ids are never reused)
    sseq,       \* sqlite_sequence of services
    cc,         \* cache of get_clients_df: set of entries (at most one, the key is ())
    sc,         \* cache of get_services_df: set of entries, one per (start, end)
    ym,         \* the sidebar widgets "Año", "Mes": <<year, month>>
    range,      \* first, nxt of the last script run (month_bounds(year, month))
    pc,         \* position inside delete_client: "idle", "del_update", "del_delete"
    tx,         \* the open connection of delete_client: its uncommitted view
    hist        \* history (ghost) record: what the last reads and writes did

vars == <<clients, services, cseq, sseq, cc, sc, ym, range, pc, tx, hist>>

-----------------------------------------------------------------------------
(* Bounds of the model *)

MaxClients == 2      \* client rows ever inserted
MaxServices == 2     \* service rows ever inserted

(* Program constants *)

TTL == 5             \* st.cache_data(ttl=5.0), seconds
MinYear == 2020      \* number_input("Año", min_value=2020, ...)
MaxYear == 2100      \* number_input("Año", ..., max_value=2100)

\* None / SQL NULL in an integer column (ids start at 1)
None == 0
\* None / SQL NULL where a text is expected; a row or no row is a set of
\* at most one element
NoText == <<>>
ValueError == [error |-> "ValueError"]
\* "(Nuevo cliente)" and "(Sin cliente)"
NuevoCliente == <<40, 78, 117, 101, 118, 111, 32, 99, 108, 105, 101, 110, 116, 101, 41>>
SinCliente == <<40, 83, 105, 110, 32, 99, 108, 105, 101, 110, 116, 101, 41>>

\* the client names the user types: nothing, a blank, "a", and " a"
NameInputs == {<<>>, <<32>>, <<97>>, <<32, 97>>}

\* the dates and times the user picks in st.date_input / st.time_input
DateInputs == {[y |-> 2024, m |-> 12, d |-> 1], [y |-> 2025, m |-> 1, d |-> 1]}
\* st.time_input("Hora", value=dtime(10,0), ...) left at its default
TimeInputs == {[h |-> 10, mi |-> 0]}
\* the months the user looks at
ViewInputs == {<<2024, 12>>, <<2025, 1>>}
\* order in which rows with equal ORDER BY keys come out of a query
Ties == {"asc", "desc"}

-----------------------------------------------------------------------------
(* Text *)

\* str.strip(): leading and trailing whitespace removed
RECURSIVE lstrip(_)
lstrip(s) == IF s # <<>> /\ Head(s) = 32 THEN lstrip(Tail(s)) ELSE s

RECURSIVE rstrip(_)
rstrip(s) ==
    IF s # <<>> /\ s[Len(s)] = 32 THEN rstrip(SubSeq(s, 1, Len(s) - 1)) ELSE s

strip(s) == rstrip(lstrip(s))

\* text comparison of SQLite (memcmp, then the shorter first)
LexLess(a, b) ==
    LET n == IF Len(a) < Len(b) THEN Len(a) ELSE Len(b)
        diff == {i \in 1..n : a[i] # b[i]}
        k == CHOOSE i \in diff : \A j \in diff : i <= j
    IN IF diff = {} THEN Len(a) < Len(b) ELSE a[k] < b[k]

LexLeq(a, b) == a = b \/ LexLess(a, b)

Digit(n) == 48 + n
Pad2(n) == <<Digit(n \div 10), Digit(n % 10)>>
Pad4(n) == <<Digit(n \div 1000), Digit((n \div 100) % 10)>> \o Pad2(n % 100)

-----------------------------------------------------------------------------
(* Dates *)

IsLeap(y) == (y % 4 = 0 /\ y % 100 # 0) \/ y % 400 = 0

DaysInMonth(y, m) ==
    IF m = 2 THEN (IF IsLeap(y) THEN 29 ELSE 28)
    ELSE IF m \in {4, 6, 9, 11} THEN 30 ELSE 31

\* datetime.date(year, month, day): ValueError outside MINYEAR..MAXYEAR etc.
date(y, m, d) ==
    IF y \in 1..9999 /\ m \in 1..12 /\ d \in 1..DaysInMonth(y, m)
    THEN [y |-> y, m |-> m, d |-> d]
    ELSE ValueError

\* date.isoformat(): "YYYY-MM-DD"
isoformat(dt) == Pad4(dt.y) \o <<45>> \o Pad2(dt.m) \o <<45>> \o Pad2(dt.d)

\* time.strftime("%H:%M")
strftime(t) == Pad2(t.h) \o <<58>> \o Pad2(t.mi)

Num(s) ==
    LET v(i) == s[i] - 48
    IN IF Len(s) = 2 THEN 10 * v(1) + v(2)
       ELSE 1000 * v(1) + 100 * v(2) + 10 * v(3) + v(4)

\* pd.to_datetime(...).dt.date of a "YYYY-MM-DD" text
to_date(txt) ==
    [y |-> Num(SubSeq(txt, 1, 4)), m |-> Num(SubSeq(txt, 6, 7)), d |-> Num(SubSeq(txt, 9, 10))]

\* SQLite date(X): a text of the form "YYYY-MM-DD" (what isoformat() writes)
\* comes back as it is, a text of another form gives NULL
sql_date(txt) ==
    IF Len(txt) = 10 /\ txt[5] = 45 /\ txt[8] = 45
       /\ \A i \in {1, 2, 3, 4, 6, 7, 9, 10} : txt[i] \in 48..57
    THEN txt
    ELSE NoText

\* chronological order of calendar dates
DateLeq(a, b) ==
    \/ a.y < b.y
    \/ a.y = b.y /\ a.m < b.m
    \/ a.y = b.y /\ a.m = b.m /\ a.d <= b.d

DateLess(a, b) == a # b /\ DateLeq(a, b)

\* month_bounds with December rolling into January of the same year
month_bounds_dec_same_year(year, month) ==
    <<date(year, month, 1), date(year, (month % 12) + 1, 1)>>

\* month_bounds(year, month): first, nxt
month_bounds(year, month) ==
    LET first == date(year, month, 1)
        nxt == IF month = 12 THEN date(year + 1, 1, 1) ELSE date(year, month + 1, 1)
    IN <<first, nxt>>

-----------------------------------------------------------------------------
(* The world a script run works on: the store, the two caches, the history *)

World ==
    [clients |-> clients, services |-> services, cseq |-> cseq, sseq |-> sseq,
     cc |-> cc, sc |-> sc, h |-> hist]

Ids(rows) == {r.id : r \in rows}

SeqRange(s) == {s[i] : i \in 1..Len(s)}

\* the rows of S as a sequence in the strict total order less (a set of pairs)
SortBy(S, less) ==
    [i \in 1..Cardinality(S) |->
        CHOOSE x \in S : Cardinality({y \in S : <<y, x>> \in less}) = i - 1]

\* rows the ORDER BY leaves unordered come out in rowid order or in its reverse
TieLess(a, b, tie) == IF tie = "asc" THEN a.id < b.id ELSE a.id > b.id

-----------------------------------------------------------------------------
(* sqlite3 connection: statements run in an implicit transaction (the       *)
(* module's default isolation_level); the store changes at con.commit()    *)

connect(w) ==
    [clients |-> w.clients, services |-> w.services, cseq |-> w.cseq, sseq |-> w.sseq]

\* cur.execute on a connection in autocommit mode: the store changes at once
execute_autocommit(w, con, after) ==
    [w |-> [w EXCEPT !.clients = after.clients, !.services = after.services,
                     !.cseq = after.cseq, !.sseq = after.sseq],
     con |-> after]

\* cur.execute(stmt): `after` is the connection's view once stmt has run
execute(w, con, after) == [w |-> w, con |-> after]

\* con.commit(); history: the store has a write the caches have not seen
commit(w, con) ==
    [w EXCEPT !.clients = con.clients, !.services = con.services,
              !.cseq = con.cseq, !.sseq = con.sseq,
              !.cc = {[e EXCEPT !.fresh = FALSE] : e \in w.cc},
              !.sc = {[e EXCEPT !.fresh = FALSE] : e \in w.sc},
              !.h = [w.h EXCEPT !.dirty = TRUE]]

Max(a, b) == IF a >= b THEN a ELSE b

RECURSIVE MaxId(_)
MaxId(rows) ==
    IF rows = {} THEN 0
    ELSE LET r == CHOOSE x \in rows : TRUE IN Max(r.id, MaxId(rows \ {r}))

\* INSERT INTO clients (name, ...) VALUES (?, ...), id INTEGER PRIMARY KEY AUTOINCREMENT
insert_client(con, name) ==
    LET id == Max(con.cseq, MaxId(con.clients)) + 1
    IN [con EXCEPT !.clients = @ \cup {[id |-> id, name |-> name]}, !.cseq = id]

insert_service(con, service_date, service_time, client_id) ==
    LET id == Max(con.sseq, MaxId(con.services)) + 1
    IN [con EXCEPT !.services = @ \cup {[id |-> id, service_date |-> service_date,
                                          service_time |-> service_time,
                                          client_id |-> client_id]},
                   !.sseq = id]

-----------------------------------------------------------------------------
(* Data access functions *)

add_client(w, name) ==
    LET con == connect(w)
        r == execute(w, con, insert_client(con, strip(name)))
    IN commit(r.w, r.con)

update_client(w, client_id, name) ==
    LET con == connect(w)
        after == [con EXCEPT !.clients =
                    {IF c.id = client_id THEN [c EXCEPT !.name = strip(name)] ELSE c : c \in @}]
        r == execute(w, con, after)
    IN commit(r.w, r.con)

\* a cascade instead: DELETE FROM services WHERE client_id=?
detach_services_delete(con, client_id) ==
    [con EXCEPT !.services = {s \in @ : s.client_id # client_id}]

\* UPDATE services SET client_id=NULL WHERE client_id=?
detach_services(con, client_id) ==
    [con EXCEPT !.services =
        {IF s.client_id = client_id THEN [s EXCEPT !.client_id = None] ELSE s : s \in @}]

\* DELETE FROM clients WHERE id=?
delete_client_row(con, client_id) ==
    [con EXCEPT !.clients = {c \in @ : c.id # client_id}]

add_service(w, service_date, service_time, client_id) ==
    LET con == connect(w)
        r == execute(w, con, insert_service(con, service_date, service_time, client_id))
    IN commit(r.w, r.con)

\* the row, or none (None)
get_service_by_id(w, service_id) == {s \in w.services : s.id = service_id}

update_service(w, service_id, service_date, service_time, client_id) ==
    LET con == connect(w)
        after == [con EXCEPT !.services =
                    {IF s.id = service_id
                     THEN [s EXCEPT !.service_date = service_date,
                                    !.service_time = service_time,
                                    !.client_id = client_id]
                     ELSE s : s \in @}]
        r == execute(w, con, after)
    IN commit(r.w, r.con)

delete_service(w, service_id) ==
    LET con == connect(w)
        after == [con EXCEPT !.services = {s \in @ : s.id # service_id}]
        r == execute(w, con, after)
    IN commit(r.w, r.con)

\* update_cache without get_services_df.clear()
update_cache_clients_only(w) ==
    [w EXCEPT !.cc = {}, !.h = [w.h EXCEPT !.dirty = FALSE]]

\* get_clients_df.clear(); get_services_df.clear()
update_cache(w) ==
    [w EXCEPT !.cc = {}, !.sc = {}, !.h = [w.h EXCEPT !.dirty = FALSE]]

-----------------------------------------------------------------------------
(* st.cache_data(ttl=5.0): an entry answers calls with its key until it is *)
(* TTL seconds old; entries carry their age instead of a timestamp         *)

\* a text that is neither None nor ""
Truthy(x) == x # NoText

\* a cache whose entries expire a second early
Lookup_early(cache, key) == {e \in cache : e.key = key /\ e.age < TTL - 1}

\* the entry that answers a call with `key`, if one is valid
Lookup(cache, key) == {e \in cache : e.key = key /\ e.age < TTL}

\* the entry a call finds under its key, valid or expired
Held(cache, key) == {e \in cache : e.key = key}

\* history of the reads.  p is the entry the call before this one (same
\* function, same key) returned, p.fresh: no write has committed since.
\*   stale: a call returned a result computed before a committed write
\*   broke: a call less than TTL after the call before it queried the store
\*   lost:  a call less than TTL after p was computed queried the store
\* and of the run: raised, it ended in the IndexError of line 214; reordered, the
\* sheet it exported lists the rows in another order than the table df
NoteRead(h, held, rows, hit) ==
    LET p == CHOOSE e \in held : TRUE
        again == hit /\ rows = p.rows
    IN [h EXCEPT !.stale = @ \/ (hit /\ ~p.fresh),
                 !.broke = @ \/ (held # {} /\ p.fresh /\ p.since < TTL /\ ~again),
                 !.lost = @ \/ (held # {} /\ p.fresh /\ p.age < TTL /\ ~again)]

\* the cache after a call with `key`: the entry kept on a hit, replaced on a miss
Stored(cache, key, hits, rows) ==
    IF hits # {}
    THEN {IF e.key = key THEN [e EXCEPT !.since = 0] ELSE e : e \in cache}
    ELSE {e \in cache : e.key # key}
         \cup {[key |-> key, rows |-> rows, age |-> 0, since |-> 0, fresh |-> TRUE]}

ClientLess(a, b, tie) ==
    LexLess(a.name, b.name) \/ (a.name = b.name /\ TieLess(a, b, tie))

\* SELECT id, name, ... FROM clients ORDER BY name
clients_query(cl, tie) ==
    SortBy(cl, {p \in cl \X cl : ClientLess(p[1], p[2], tie)})

get_clients_df(w, tie) ==
    LET hits == Lookup(w.cc, <<>>)
        rows == IF hits # {} THEN (CHOOSE e \in hits : TRUE).rows
                ELSE clients_query(w.clients, tie)
    IN [df |-> rows,
        w |-> [w EXCEPT !.cc = Stored(w.cc, <<>>, hits, rows),
                        !.h = NoteRead(w.h, Held(w.cc, <<>>), rows, hits # {})]]

\* the range with its end included: ... AND date(s.service_date) <= date(?)
InRange_closed_end(s, start, end) ==
    LET lo == sql_date(start)
        hi == sql_date(end)
        d == sql_date(s.service_date)
    IN lo # NoText /\ hi # NoText /\ d # NoText /\ LexLeq(lo, d) /\ LexLeq(d, hi)

\* WHERE date(s.service_date) >= date(?) AND date(s.service_date) < date(?)
InRange(s, start, end) ==
    LET lo == sql_date(start)
        hi == sql_date(end)
        d == sql_date(s.service_date)
    IN lo # NoText /\ hi # NoText /\ d # NoText /\ LexLeq(lo, d) /\ LexLess(d, hi)

\* ORDER BY s.service_date, s.service_time
ServiceLess(a, b, tie) ==
    \/ LexLess(a.service_date, b.service_date)
    \/ a.service_date = b.service_date /\ LexLess(a.service_time, b.service_time)
    \/ a.service_date = b.service_date /\ a.service_time = b.service_time
       /\ TieLess(a, b, tie)

\* ... FROM services s LEFT JOIN clients c ON c.id=s.client_id
JoinRow(s, cl) ==
    [id |-> s.id, service_date |-> s.service_date, service_time |-> s.service_time,
     client |-> {c.name : c \in {x \in cl : x.id = s.client_id}},
     client_id |-> s.client_id]

services_query(sv, cl, start, end, tie) ==
    LET sel == IF Truthy(start) /\ Truthy(end)
               THEN {s \in sv : InRange(s, start, end)} ELSE sv
        sorted == SortBy(sel, {p \in sel \X sel : ServiceLess(p[1], p[2], tie)})
    IN [i \in 1..Len(sorted) |-> JoinRow(sorted[i], cl)]

\* df["service_date"] = pd.to_datetime(df["service_date"]).dt.date
DateColumn(rows) ==
    [i \in 1..Len(rows) |-> [rows[i] EXCEPT !.service_date = to_date(@)]]

get_services_df(w, start, end, tie) ==
    LET key == <<start, end>>
        hits == Lookup(w.sc, key)
        rows == IF hits # {} THEN (CHOOSE e \in hits : TRUE).rows
                ELSE DateColumn(services_query(w.services, w.clients, start, end, tie))
    IN [df |-> rows,
        w |-> [w EXCEPT !.sc = Stored(w.sc, key, hits, rows),
                        !.h = NoteRead(w.h, Held(w.sc, key), rows, hits # {})]]

\* the columns of the "Agenda" sheet: Fecha, Hora, Cliente, client_id apart
Sheet(rows) ==
    [i \in 1..Len(rows) |->
        [Fecha |-> rows[i].service_date, Hora |-> rows[i].service_time,
         Cliente |-> rows[i].client]]

\* the "Agenda" sheet of export_excel: the same query, not cached
export_excel(w, df, start, end, tie) ==
    LET servicios == Sheet(DateColumn(services_query(w.services, w.clients,
                                                     start, end, tie)))
    IN [w EXCEPT !.h.reordered = servicios # Sheet(df)]

-----------------------------------------------------------------------------
(* main(): one run of the script per user interaction.  An event e is the  *)
(* button pressed in this run together with the widget values it reads.    *)

Ev(kind, tie) ==
    [kind |-> kind, tie |-> tie, tie2 |-> tie, choice |-> NuevoCliente, name |-> <<>>,
     sdate |-> [y |-> 2024, m |-> 12, d |-> 1], stime |-> [h |-> 10, mi |-> 0],
     sid |-> None, cname |-> SinCliente, cid |-> None]

\* result of a part of the script: ok = the event is possible in this run,
\* stop = the run ends here (st.stop() or an uncaught exception)
R(ok, stop, w) == [ok |-> ok, stop |-> stop, w |-> w, tx |-> {}]

Names(df) == {df[i].name : i \in 1..Len(df)}

WithName(df, name) == LET Test(r) == r.name = name IN SelectSeq(df, Test)

\* lines 172-219, tab "Agregar"
TabAgregar(w, clients_df, e) ==
    IF e.kind = "save_new_client" THEN
        IF strip(e.name) = <<>> THEN R(TRUE, FALSE, w)          \* st.error
        ELSE IF w.cseq >= MaxClients THEN R(FALSE, FALSE, w)
        ELSE R(TRUE, FALSE, update_cache(add_client(w, e.name)))
    ELSE IF e.kind = "add_service" THEN
        IF e.choice = NuevoCliente THEN
            IF strip(e.name) = <<>> THEN R(TRUE, TRUE, w)       \* st.error, st.stop
            ELSE IF w.cseq >= MaxClients \/ w.sseq >= MaxServices THEN R(FALSE, FALSE, w)
            ELSE
                LET w1 == update_cache(add_client(w, e.name))
                    r == get_clients_df(w1, e.tie)
                    found == WithName(r.df, e.name)
                IN IF found = <<>>
                   THEN \* .iloc[0] raises IndexError
                        R(TRUE, TRUE, [r.w EXCEPT !.h.raised = TRUE])
                   ELSE LET client_id == found[1].id
                        IN R(TRUE, FALSE,
                             update_cache(add_service(r.w, isoformat(e.sdate),
                                                      strftime(e.stime), client_id)))
        ELSE
            LET found == WithName(clients_df, e.choice)
                client_id == found[1].id
            IN IF found = <<>> \/ w.sseq >= MaxServices THEN R(FALSE, FALSE, w)
               ELSE R(TRUE, FALSE,
                      update_cache(add_service(w, isoformat(e.sdate), strftime(e.stime),
                                               client_id)))
    ELSE R(TRUE, FALSE, w)

\* a client_map of row positions (1, 2, ...) instead of ids
ClientMap_by_position(df, name) ==
    CHOOSE i \in 1..Len(df) : df[i].name = name /\ \A j \in (i + 1)..Len(df) : df[j].name # name

\* client_map = {row["name"]: int(row["id"]) for ...}: the last row of a name wins
ClientMap(df, name) == LET found == WithName(df, name) IN found[Len(found)].id

\* lines 222-295, tab "Agenda"
TabAgenda(w, df, e, start, end) ==
    LET onService == e.kind \in {"save_service", "delete_service"}
        selected_id == IF onService THEN e.sid ELSE df[1].id
        s == IF df = <<>> THEN {} ELSE get_service_by_id(w, selected_id)
        c2 == get_clients_df(w, e.tie)                          \* line 264
        new_client_id == IF e.cname # SinCliente THEN ClientMap(c2.df, e.cname) ELSE None
        edited ==
            IF df = <<>> \/ (onService /\ selected_id \notin Ids(SeqRange(df))) \/ s = {}
            THEN R(~onService, FALSE, w)
            ELSE IF e.kind = "save_service" THEN
                IF e.cname # SinCliente /\ e.cname \notin Names(c2.df)
                THEN R(FALSE, FALSE, w)
                ELSE R(TRUE, FALSE,
                       update_cache(
                           update_service(c2.w, selected_id, isoformat(e.sdate),
                                          strftime(e.stime), new_client_id)))
            ELSE IF e.kind = "delete_service" THEN
                R(TRUE, FALSE, update_cache(delete_service(c2.w, selected_id)))
            ELSE R(TRUE, FALSE, c2.w)
    IN IF e.kind = "export" /\ edited.ok
       THEN R(TRUE, FALSE, export_excel(edited.w, df, start, end, e.tie2))
       ELSE edited

\* lines 298-325, tab "Clientes"; delete_client stops after its first statement
TabClientes(w, cdf, e) ==
    IF e.kind \in {"save_client", "delete_client"} THEN
        IF e.cid \notin Ids(SeqRange(cdf)) THEN R(FALSE, FALSE, w)
        ELSE IF e.kind = "save_client"
        THEN R(TRUE, FALSE, update_cache(update_client(w, e.cid, e.name)))
        ELSE LET con == connect(w)
                 r == execute(w, con, detach_services(con, e.cid))
             IN [ok |-> TRUE, stop |-> TRUE, w |-> r.w,
                 tx |-> {[con |-> r.con, cid |-> e.cid]}]
    ELSE R(TRUE, FALSE, w)

\* the script, top to bottom, from each of its parts on
RunResumen(t3, e, start, end) ==
    IF ~t3.ok \/ t3.stop THEN t3
    ELSE R(TRUE, FALSE, get_services_df(t3.w, start, end, e.tie).w)    \* line 330

RunClientes(c, e, start, end) ==
    RunResumen(TabClientes(c.w, c.df, e), e, start, end)

RunDirectorio(t2, e, start, end) ==
    IF ~t2.ok THEN t2
    ELSE RunClientes(get_clients_df(t2.w, e.tie), e, start, end)       \* line 300

RunAgenda(b, e, start, end) ==
    RunDirectorio(TabAgenda(b.w, b.df, e, start, end), e, start, end)

RunListado(t1, e, start, end) ==
    IF ~t1.ok \/ t1.stop THEN t1
    ELSE RunAgenda(get_services_df(t1.w, start, end, e.tie), e, start, end)  \* line 224

RunAgregar(a, e, start, end) ==
    RunListado(TabAgregar(a.w, a.df, e), e, start, end)

Run(w0, e, start, end) ==
    RunAgregar(
        get_clients_df(                                                \* line 174
            [w0 EXCEPT !.h = [dirty |-> @.dirty, stale |-> FALSE, broke |-> FALSE,
                              lost |-> FALSE, raised |-> FALSE, reordered |-> FALSE]],
            e.tie),
        e, start, end)

Install(w) ==
    /\ clients' = w.clients
    /\ services' = w.services
    /\ cseq' = w.cseq
    /\ sseq' = w.sseq
    /\ cc' = w.cc
    /\ sc' = w.sc
    /\ hist' = w.h

\* a run that has ended with r takes effect
Finish(r, view, mb) ==
    /\ pc = "idle"
    /\ r.ok
    /\ Install(r.w)
    /\ ym' = view
    /\ range' = mb
    /\ tx' = r.tx
    /\ pc' = IF r.tx # {} THEN "del_update" ELSE "idle"

\* the sidebar's bounds and the run they start
Start(e, view, mb) ==
    Finish(Run(World, e, isoformat(mb[1]), isoformat(mb[2])), view, mb)

\* lines 159-163 and the run
Step(e, view) == Start(e, view, month_bounds(view[1], view[2]))

-----------------------------------------------------------------------------
(* Actions: the user's interactions.  The selectboxes offer what the frames *)
(* of the run list; an event on a row the run does not list is not enabled *)

StoredNames == {strip(n) : n \in NameInputs}

\* the page reloads, or a widget that is no button changes
Rerun ==
    \E tie \in Ties : Step(Ev("rerun", tie), ym)

\* the sidebar's year or month changes
ChangeMonth ==
    \E view \in ViewInputs \ {ym}, tie \in Ties : Step(Ev("rerun", tie), view)

\* "Guardar cliente nuevo"
SaveNewClient ==
    /\ cseq < MaxClients
    /\ \E name \in NameInputs, tie \in Ties :
        Step([Ev("save_new_client", tie) EXCEPT !.name = name], ym)

\* "Agregar servicio a la Agenda"
AddService ==
    /\ sseq < MaxServices
    /\ \E choice \in {NuevoCliente} \cup StoredNames, name \in NameInputs,
          sdate \in DateInputs, stime \in TimeInputs, tie \in Ties :
        /\ choice # NuevoCliente => name = <<>>
        /\ Step([Ev("add_service", tie) EXCEPT !.choice = choice, !.name = name,
                                               !.sdate = sdate, !.stime = stime], ym)

\* "Guardar cambios" of a service
SaveService ==
    \E sid \in 1..MaxServices, cname \in {SinCliente} \cup StoredNames,
       sdate \in DateInputs, stime \in TimeInputs, tie \in Ties :
        Step([Ev("save_service", tie) EXCEPT !.sid = sid, !.cname = cname,
                                                !.sdate = sdate, !.stime = stime], ym)

\* "Eliminar servicio"
DeleteService ==
    \E sid \in 1..MaxServices, tie \in Ties :
        Step([Ev("delete_service", tie) EXCEPT !.sid = sid], ym)

\* "Exportar a Excel (mes actual)"
Export ==
    \E tie \in Ties, tie2 \in Ties : Step([Ev("export", tie) EXCEPT !.tie2 = tie2], ym)

\* "Guardar cambios (cliente)"
SaveClient ==
    \E cid \in 1..MaxClients, name \in NameInputs, tie \in Ties :
        Step([Ev("save_client", tie) EXCEPT !.cid = cid, !.name = name], ym)

\* "Eliminar cliente": the run up to delete_client's UPDATE statement
DeleteClientPress ==
    \E cid \in 1..MaxClients, tie \in Ties :
        Step([Ev("delete_client", tie) EXCEPT !.cid = cid], ym)

\* delete_client: cur.execute("DELETE FROM clients WHERE id=?")
DeleteClientDelete ==
    /\ pc = "del_update"
    /\ LET t == CHOOSE x \in tx : TRUE
           r == execute(World, t.con, delete_client_row(t.con, t.cid))
       IN Install(r.w) /\ tx' = {[t EXCEPT !.con = r.con]}
    /\ pc' = "del_delete"
    /\ UNCHANGED <<ym, range>>

\* delete_client: con.commit(); then update_cache() and the rest of the run
DeleteClientCommit ==
    /\ pc = "del_delete"
    /\ \E tie \in Ties :
        LET t == CHOOSE x \in tx : TRUE
            w1 == update_cache(commit(World, t.con))
            d == get_services_df(w1, isoformat(range[1]), isoformat(range[2]), tie)
        IN Install(d.w)
    /\ pc' = "idle"
    /\ tx' = {}
    /\ UNCHANGED <<ym, range>>

\* delete_client fails between its statements (an exception closes the
\* connection without commit) or the process is killed (the caches go too)
DeleteClientAbort ==
    /\ pc \in {"del_update", "del_delete"}
    /\ \E killed \in BOOLEAN :
        /\ cc' = IF killed THEN {} ELSE cc
        /\ sc' = IF killed THEN {} ELSE sc
    /\ pc' = "idle"
    /\ tx' = {}
    /\ UNCHANGED <<clients, services, cseq, sseq, ym, range, hist>>

Older(n) == IF n < TTL THEN n + 1 ELSE n

\* a second passes
Tick ==
    /\ pc = "idle"
    /\ cc' = {[e EXCEPT !.age = Older(@), !.since = Older(@)] : e \in cc}
    /\ sc' = {[e EXCEPT !.age = Older(@), !.since = Older(@)] : e \in sc}
    /\ UNCHANGED <<clients, services, cseq, sseq, ym, range, pc, tx, hist>>

\* the store changes by another path (another program on agenda.db): a
\* client row or a service row goes, a service row comes
ExternalChange ==
    /\ pc = "idle"
    /\ \/ \E c \in clients :
            clients' = clients \ {c} /\ UNCHANGED <<services, sseq>>
       \/ \E s \in services :
            services' = services \ {s} /\ UNCHANGED <<clients, sseq>>
       \/ /\ sseq < MaxServices
          /\ \E sdate \in DateInputs, stime \in TimeInputs :
                LET con == insert_service(connect(World), isoformat(sdate),
                                          strftime(stime), None)
                IN services' = con.services /\ sseq' = con.sseq
          /\ UNCHANGED clients
    /\ UNCHANGED <<cseq, cc, sc, ym, range, pc, tx, hist>>

\* lines 159-163 alone: the sidebar's year and month give first, nxt
Sidebar ==
    /\ range = <<>>
    /\ range' = month_bounds(ym[1], ym[2])
    /\ UNCHANGED <<clients, services, cseq, sseq, cc, sc, ym, pc, tx, hist>>

-----------------------------------------------------------------------------
(* Specifications *)

InitStore ==
    /\ clients = {}
    /\ services = {}
    /\ cseq = 0
    /\ sseq = 0
    /\ cc = {}
    /\ sc = {}
    /\ range = <<>>
    /\ pc = "idle"
    /\ tx = {}
    /\ hist = [dirty |-> FALSE, stale |-> FALSE, broke |-> FALSE, lost |-> FALSE,
               raised |-> FALSE, reordered |-> FALSE]

Init == InitStore /\ ym \in ViewInputs

Next ==
    \/ Rerun
    \/ ChangeMonth
    \/ SaveNewClient
    \/ AddService
    \/ SaveService
    \/ DeleteService
    \/ Export
    \/ SaveClient
    \/ DeleteClientPress
    \/ DeleteClientDelete
    \/ DeleteClientCommit
    \/ DeleteClientAbort

\* the application alone on its store
Spec == Init /\ [][Next]_vars

NextExt ==
    \/ Rerun
    \/ SaveNewClient
    \/ Tick
    \/ ExternalChange

\* the cached reads over time, with another path that changes the store
SpecExt == Init /\ [][NextExt]_vars

InitMB == InitStore /\ ym \in (MinYear..MaxYear) \X (1..12)

\* month_bounds on every year and month the sidebar offers
SpecMB == InitMB /\ [][Sidebar]_vars

-----------------------------------------------------------------------------
(* Properties *)

\* C1: when delete_client commits the deletion of client cid, every service
\* that referenced cid has its client link set to none and keeps its date
\* and time, every other service is as it was, no service row is deleted,
\* and cid is no longer a row of clients nor of any listing of them
C1_DetachOnDelete ==
    [][(pc = "del_delete" /\ pc' = "idle" /\ clients' # clients) =>
        \A t \in tx :
            /\ Cardinality(services') = Cardinality(services)
            /\ \A s \in services : \E s2 \in services' :
                /\ s2.id = s.id
                /\ s2.service_date = s.service_date
                /\ s2.service_time = s.service_time
                /\ s2.client_id = IF s.client_id = t.cid THEN None ELSE s.client_id
            /\ t.cid \notin Ids(clients')
            /\ \A tie \in Ties : t.cid \notin Ids(SeqRange(clients_query(clients', tie)))
            /\ \A e \in cc' : t.cid \notin Ids(SeqRange(e.rows))]_vars

\* C1, its case: delete_client has run both statements on a client that a
\* stored service references; its connection holds the service detached
\* and the client gone, ready to commit
C1_Witness ==
    /\ pc = "del_delete"
    /\ \E t \in tx : \E s \in services :
        /\ s.client_id = t.cid
        /\ t.cid \notin Ids(t.con.clients)
        /\ \E s2 \in t.con.services : s2.id = s.id /\ s2.client_id = None

\* C2: delete_client is atomic: a step taken while it is under way leaves
\* the stored clients and services as they were (neither statement
\* applied), or is its commit and applies both statements at once
C2_DeleteClientAtomic ==
    [][(pc # "idle" \/ pc' # "idle") =>
        \/ clients' = clients /\ services' = services
        \/ /\ pc = "del_delete"
           /\ \E t \in tx :
                /\ clients' = {c \in clients : c.id # t.cid}
                /\ services' = {IF s.client_id = t.cid THEN [s EXCEPT !.client_id = None]
                                ELSE s : s \in services}]_vars

\* C2, its case: delete_client is between its two statements, the first has
\* changed a service on its connection and the store shows none of it
C2_Witness ==
    /\ pc = "del_update"
    /\ \E t \in tx : t.con.services # services /\ t.con.clients = clients

\* C3: no state is left with a committed write the caches have not been
\* cleared after, no cached read returned a result computed before a
\* committed write, and what the caches hold are rows of the store as it is
C3_CacheClearedAfterWrite ==
    /\ ~hist.dirty
    /\ ~hist.stale
    /\ \A e \in cc \cup sc : e.fresh
    /\ \A e \in cc : SeqRange(e.rows) = clients
    /\ \A e \in sc : \A r \in SeqRange(e.rows) : \E s \in services :
        /\ r.id = s.id
        /\ r.service_date = to_date(s.service_date)
        /\ r.service_time = s.service_time
        /\ r.client_id = s.client_id
        /\ r.client = {c.name : c \in {x \in clients : x.id = s.client_id}}
    /\ \A e \in sc : \A s \in services :
        InRange(s, e.key[1], e.key[2]) => s.id \in Ids(SeqRange(e.rows))

\* C3, its case: after writes of a client and of a service the run's reads
\* have filled both caches again, with the rows written
C3_Witness ==
    /\ pc = "idle"
    /\ \E e \in cc : e.rows # <<>>
    /\ \E e \in sc : \E i \in 1..Len(e.rows) : e.rows[i].client # {}

\* C4, as the specification words it: a call of get_clients_df, or of
\* get_services_df with the same arguments, made less than TTL seconds
\* after the call before it, with no write of the application between the
\* two, returns that call's result and does not query the store
C4_TwoCallsWithinTTL == ~hist.broke

\* C4, amended: a call made less than TTL seconds after the cached result
\* was computed (the call that queried the store), with no write of the
\* application since, returns that result and does not query the store
C4_WithinTTLOfComputation == ~hist.lost

\* C4, its case: a call has just been answered from an entry computed
\* seconds before, and its rows are not those of the store, which changed
\* by another path meanwhile: the call did not query the store
C4_Witness ==
    \E e \in cc : e.since = 0 /\ e.age > 0 /\ e.age < TTL /\ SeqRange(e.rows) # clients

\* C5: a step that writes a service row (inserts it or changes it) leaves
\* its client_id none or the id of a client that exists once the step is done
C5_ReferentialValidityAtWrite ==
    [][\A s \in services' \ services :
        s.client_id = None \/ s.client_id \in Ids(clients')]_vars

\* C5, its case: a service has been written with the id of a stored client
\* that is not the last one created, an id taken from the client list
C5_Witness ==
    /\ pc = "idle"
    /\ \E s \in services :
        s.client_id # None /\ s.client_id < cseq /\ s.client_id \in Ids(clients)

\* C6: every stored client has a name that is not empty once stripped
C6_ClientNameNonEmpty == \A c \in clients : strip(c.name) # <<>>

\* C7: a listing of services with bounds start, end holds exactly the
\* services whose date d has start <= d < end in calendar order (start
\* inclusive, end exclusive), in the listings the runs have made and for
\* every pair of bounds among the first days of the months viewed; with a
\* bound absent the query selects every service
C7_RangeHalfOpen ==
    /\ \A tie \in Ties :
       \A v1 \in ViewInputs, v2 \in ViewInputs, i \in 1..2, j \in 1..2 :
        LET start == month_bounds(v1[1], v1[2])[i]
            end == month_bounds(v2[1], v2[2])[j]
        IN Ids(SeqRange(services_query(services, clients, isoformat(start),
                                       isoformat(end), tie))) =
            {s.id : s \in {x \in services :
                /\ DateLeq(start, to_date(x.service_date))
                /\ DateLess(to_date(x.service_date), end)}}
    /\ \A e \in sc :
        Ids(SeqRange(e.rows)) =
            {s.id : s \in {x \in services :
                /\ DateLeq(to_date(e.key[1]), to_date(x.service_date))
                /\ DateLess(to_date(x.service_date), to_date(e.key[2]))}}
    /\ \A tie \in Ties, b \in {NoText} \cup {isoformat(d) : d \in DateInputs} :
        /\ Ids(SeqRange(services_query(services, clients, NoText, b, tie))) = Ids(services)
        /\ Ids(SeqRange(services_query(services, clients, b, NoText, tie))) = Ids(services)

\* C7, its case: a listing that holds a service dated on its start bound
\* and leaves out a service dated on its end bound
C7_Witness ==
    \E e \in sc : \E s1 \in services, s2 \in services :
        /\ s1.service_date = e.key[1] /\ s1.id \in Ids(SeqRange(e.rows))
        /\ s2.service_date = e.key[2] /\ s2.id \notin Ids(SeqRange(e.rows))

\* C8: the same store gives the same row order: the sheet a run exports
\* lists the services in the order of the run's listing of the same range
C8_SameStoreSameOrder == ~hist.reordered

\* C9: for every year and month of the sidebar, month_bounds gives the
\* first day of that month and the first day of the month after it, which
\* for December is January of the next year
C9_MonthRollover ==
    range # <<>> =>
        LET first == range[1]
            nxt == range[2]
        IN /\ first = [y |-> ym[1], m |-> ym[2], d |-> 1]
           /\ nxt \in [y : MinYear..(MaxYear + 1), m : 1..12, d : {1}]
           /\ (12 * nxt.y + nxt.m) - (12 * first.y + first.m) = 1
           /\ ym[2] = 12 => nxt = [y |-> ym[1] + 1, m |-> 1, d |-> 1]

\* C9, its case: the bounds of a December
C9_Witness ==
    /\ range # <<>>
    /\ ym[2] = 12
    /\ range[2] = [y |-> ym[1] + 1, m |-> 1, d |-> 1]

\* C10: a run of "Agregar servicio" with "(Nuevo cliente)" that creates a
\* client ends without an uncaught exception and with a new service that
\* carries the id of the client it created
C10_NewClientLinked ==
    [][(cseq' = cseq + 1 /\ (sseq' = sseq + 1 \/ hist'.raised)) =>
        /\ ~hist'.raised
        /\ \E s \in services' : s.id = sseq' /\ s.client_id = cseq']_vars

====
